---- MODULE Spec2Model ----
(***************************************************************************)
(* Model of the fair-assignment bot (bot_logic.py): the session store of   *)
(* GroupDecisionBot, the ranking validator, the probabilistic-serial       *)
(* ("eating") solver and the randomized rounding step.                     *)
(*                                                                         *)
(* Numbers: the solver works on floats.  Here every quantity is an exact   *)
(* rational <<numerator, denominator>> in lowest terms; the comparisons    *)
(* with the tolerance 1e-9 of the code are kept as comparisons with        *)
(* 1/EpsInv.                                                               *)
(***************************************************************************)
EXTENDS Integers, Sequences, FiniteSets, TLC

\* sessions: GroupDecisionBot.sessions; ret: the last call and its result;
\* frames: the calls in progress, by thread, each with its local variables
\* and its position (none while the handlers run one after the other)
VARIABLES sessions, ret, frames

vars == <<sessions, ret, frames>>

(***************************************************************************)
(* Bounds and universes of identifiers.                                    *)
(***************************************************************************)
MaxItems == 2

Groups == {"g1"}

Users == {"u1", "u2", "u3"}

ItemLabels == <<"A", "B", "C", "D", "E">>

(***************************************************************************)
(* Optional values: Python's None and a present value.                     *)
(***************************************************************************)
None == <<>>

Some(v) == <<v>>

\* no call is in progress
NoFrames == [t \in {} |-> None]

(***************************************************************************)
(* Exact rational arithmetic standing for the float arithmetic of numpy.   *)
(***************************************************************************)
RECURSIVE GCD(_, _)
GCD(a, b) == IF b = 0 THEN a ELSE GCD(b, a % b)

Abs(a) == IF a < 0 THEN -a ELSE a

Rat(n, d) ==
    LET g == GCD(Abs(n), Abs(d))
        s == IF d < 0 THEN -1 ELSE 1
    IN  <<(s * n) \div g, (s * d) \div g>>

Zero == <<0, 1>>

One == <<1, 1>>

RAdd(x, y) == Rat(x[1] * y[2] + y[1] * x[2], x[2] * y[2])

RSub(x, y) == Rat(x[1] * y[2] - y[1] * x[2], x[2] * y[2])

RMulInt(x, k) == Rat(x[1] * k, x[2])

RDivInt(x, k) == Rat(x[1], x[2] * k)

RDiv(x, y) == Rat(x[1] * y[2], x[2] * y[1])

RLess(x, y) == x[1] * y[2] < y[1] * x[2]

RMin(x, y) == IF RLess(y, x) THEN y ELSE x

\* the tolerance 1e-9 of the solver, as its reciprocal
EpsInv == 1000000000

\* x > 1e-9, computed without leaving 32-bit integers
GtEps(x) == x[1] > 0 /\ (x[2] \div x[1]) < EpsInv

RECURSIVE RSum(_)
RSum(s) == IF s = <<>> THEN Zero ELSE RAdd(Head(s), RSum(Tail(s)))

\* Fault variant of RMinSeq: the largest element
RECURSIVE RMinSeq_max(_)
RMinSeq_max(s) ==
    IF Len(s) = 1 THEN s[1]
    ELSE LET m == RMinSeq_max(Tail(s)) IN IF RLess(s[1], m) THEN m ELSE s[1]

RECURSIVE RMinSeq(_)
RMinSeq(s) == IF Len(s) = 1 THEN s[1] ELSE RMin(s[1], RMinSeq(Tail(s)))

SetToSeq(S) == CHOOSE f \in [1..Cardinality(S) -> S] : \A x \in S : \E i \in DOMAIN f : f[i] = x

(***************************************************************************)
(* Texts are sequences of one-character strings.                           *)
(***************************************************************************)
DigitChars == <<"0", "1", "2", "3", "4", "5", "6", "7", "8", "9">>

DigitSet == {DigitChars[i] : i \in DOMAIN DigitChars}

DigitValues == [c \in DigitSet |-> (CHOOSE i \in DOMAIN DigitChars : DigitChars[i] = c) - 1]

IsDigit(c) == c \in DigitSet

DigitVal(c) == DigitValues[c]

IsSpace(c) == c = " "

\* re.sub(r'\s+', '', text)
StripSpace(text) == SelectSeq(text, LAMBDA c : ~IsSpace(c))

\* re.match(r'^\d+(,\d+)*$', cleaned)
MatchesRankingRegex(cleaned) ==
    /\ Len(cleaned) > 0
    /\ \A i \in DOMAIN cleaned : IsDigit(cleaned[i]) \/ cleaned[i] = ","
    /\ IsDigit(cleaned[1])
    /\ IsDigit(cleaned[Len(cleaned)])
    /\ \A i \in 1..(Len(cleaned) - 1) : ~(cleaned[i] = "," /\ cleaned[i + 1] = ",")

\* cleaned.split(',')
RECURSIVE SplitAcc(_, _, _)
SplitAcc(text, cur, acc) ==
    IF text = <<>> THEN Append(acc, cur)
    ELSE IF Head(text) = "," THEN SplitAcc(Tail(text), <<>>, Append(acc, cur))
    ELSE SplitAcc(Tail(text), Append(cur, Head(text)), acc)

SplitComma(text) == SplitAcc(text, <<>>, <<>>)

\* int(x) of a string of digits
RECURSIVE ParseIntAcc(_, _)
ParseIntAcc(tok, acc) ==
    IF tok = <<>> THEN acc ELSE ParseIntAcc(Tail(tok), 10 * acc + DigitVal(Head(tok)))

ParseInt(tok) == ParseIntAcc(tok, 0)

\* sorted(numbers)
RECURSIVE InsertSorted(_, _)
InsertSorted(x, s) ==
    IF s = <<>> THEN <<x>>
    ELSE IF x <= Head(s) THEN <<x>> \o s
    ELSE <<Head(s)>> \o InsertSorted(x, Tail(s))

RECURSIVE Sorted(_)
Sorted(s) == IF s = <<>> THEN <<>> ELSE InsertSorted(Head(s), Sorted(Tail(s)))

\* Fault variant of is_ranking_format: checks the range of the numbers, not
\* that they are all different
is_ranking_format_range_only(text, expected_length) ==
    LET cleaned == StripSpace(text)
    IN  IF ~MatchesRankingRegex(cleaned) THEN FALSE
        ELSE LET toks == SplitComma(cleaned)
                 numbers == [i \in DOMAIN toks |-> ParseInt(toks[i])]
             IN  IF expected_length # None /\ Len(numbers) # expected_length[1]
                 THEN FALSE
                 ELSE \A i \in DOMAIN numbers : numbers[i] \in 1..Len(numbers)

\* Fault variant of is_ranking_format: expected_length is not looked at
is_ranking_format_any_length(text, expected_length) ==
    LET cleaned == StripSpace(text)
    IN  IF ~MatchesRankingRegex(cleaned) THEN FALSE
        ELSE LET toks == SplitComma(cleaned)
                 numbers == [i \in DOMAIN toks |-> ParseInt(toks[i])]
                 expected == [i \in 1..Len(numbers) |-> i]
             IN  Sorted(numbers) = expected

\* GroupDecisionBot.is_ranking_format; expected_length is None or Some(n)
is_ranking_format(text, expected_length) ==
    LET cleaned == StripSpace(text)
    IN  IF ~MatchesRankingRegex(cleaned) THEN FALSE
        ELSE LET toks == SplitComma(cleaned)
                 numbers == [i \in DOMAIN toks |-> ParseInt(toks[i])]
                 expected == [i \in 1..Len(numbers) |-> i]
             IN  IF expected_length # None /\ Len(numbers) # expected_length[1]
                 THEN FALSE
                 ELSE Sorted(numbers) = expected

\* [int(x) - 1 for x in ranking_text.split(',')]
ParseRanking(ranking_text) ==
    LET toks == SplitComma(ranking_text)
    IN  [i \in DOMAIN toks |-> ParseInt(toks[i]) - 1]

(***************************************************************************)
(* The solver: GroupDecisionBot._bogomolnaia_moulin.  pref_matrix is the   *)
(* sequence of the rankings in the insertion order of the preferences;     *)
(* items are 0-based as in the code, sequences are indexed from 1.         *)
(***************************************************************************)
\* Fault variant of FirstAvailable: when the first item of the ranking is
\* exhausted the scan goes on from the end of the ranking
RECURSIVE FirstAvailable_from_last(_, _)
FirstAvailable_from_last(ranking, item_remaining) ==
    IF ranking = <<>> THEN -1
    ELSE IF GtEps(item_remaining[Head(ranking) + 1]) THEN Head(ranking)
    ELSE LET last == ranking[Len(ranking)]
         IN  IF GtEps(item_remaining[last + 1]) THEN last
             ELSE FirstAvailable_from_last(SubSeq(ranking, 1, Len(ranking) - 1),
                                           item_remaining)

\* first item of the ranking with item_remaining > 1e-9, or -1
RECURSIVE FirstAvailable(_, _)
FirstAvailable(ranking, item_remaining) ==
    IF ranking = <<>> THEN -1
    ELSE IF GtEps(item_remaining[Head(ranking) + 1]) THEN Head(ranking)
    ELSE FirstAvailable(Tail(ranking), item_remaining)

top_choice(pref_matrix, item_remaining, person_remaining) ==
    [p \in DOMAIN pref_matrix |->
        IF ~GtEps(person_remaining[p]) THEN -1
        ELSE FirstAvailable(pref_matrix[p], item_remaining)]

eaters_per_item(top, n_items) ==
    [j \in 1..n_items |-> {p \in DOMAIN top : top[p] = j - 1}]

\* Fault variant of dt_candidates: the supply of an item is shared among
\* one more than its eaters
dt_candidates_one_more_eater(top, eaters, item_remaining, person_remaining) ==
    LET eaten == {j \in DOMAIN eaters : eaters[j] # {}}
        active == {p \in DOMAIN top : GtEps(person_remaining[p]) /\ top[p] # -1}
        itemSeq == SetToSeq(eaten)
        persSeq == SetToSeq(active)
    IN  [i \in 1..Len(itemSeq) |->
            RDivInt(item_remaining[itemSeq[i]], Cardinality(eaters[itemSeq[i]]) + 1)]
        \o [i \in 1..Len(persSeq) |-> RDivInt(person_remaining[persSeq[i]], 2)]

\* Fault variant of dt_candidates: the times until an item is exhausted are
\* left out
dt_candidates_persons_only(top, eaters, item_remaining, person_remaining) ==
    LET active == {p \in DOMAIN top : GtEps(person_remaining[p]) /\ top[p] # -1}
        persSeq == SetToSeq(active)
    IN  [i \in 1..Len(persSeq) |-> person_remaining[persSeq[i]]]

dt_candidates(top, eaters, item_remaining, person_remaining) ==
    LET eaten == {j \in DOMAIN eaters : eaters[j] # {}}
        active == {p \in DOMAIN top : GtEps(person_remaining[p]) /\ top[p] # -1}
        itemSeq == SetToSeq(eaten)
        persSeq == SetToSeq(active)
    IN  [i \in 1..Len(itemSeq) |->
            RDivInt(item_remaining[itemSeq[i]], Cardinality(eaters[itemSeq[i]]))]
        \o [i \in 1..Len(persSeq) |-> person_remaining[persSeq[i]]]

Clamp0(x) == IF RLess(x, Zero) THEN Zero ELSE x

\* Fault variant of Eat: the supply of an item falls by dt, whatever the
\* number of its eaters
Eat_supply_falls_by_dt(st, top, eaters, dt) ==
    [item_remaining |->
        [j \in DOMAIN st.item_remaining |->
            IF eaters[j] = {} THEN st.item_remaining[j]
            ELSE Clamp0(RSub(st.item_remaining[j], dt))],
     person_remaining |->
        [p \in DOMAIN st.person_remaining |->
            IF top[p] = -1 THEN st.person_remaining[p]
            ELSE Clamp0(RSub(st.person_remaining[p], dt))],
     prob |->
        [p \in DOMAIN st.prob |->
            [j \in DOMAIN st.prob[p] |->
                IF top[p] = j - 1 THEN RAdd(st.prob[p][j], dt) ELSE st.prob[p][j]]]]

\* Fault variant of Eat: of the eaters of an item the first takes all that
\* is consumed of it
Eat_with_precedence(st, top, eaters, dt) ==
    [item_remaining |->
        [j \in DOMAIN st.item_remaining |->
            IF eaters[j] = {} THEN st.item_remaining[j]
            ELSE Clamp0(RSub(st.item_remaining[j], RMulInt(dt, Cardinality(eaters[j]))))],
     person_remaining |->
        [p \in DOMAIN st.person_remaining |->
            IF top[p] = -1 THEN st.person_remaining[p]
            ELSE Clamp0(RSub(st.person_remaining[p], dt))],
     prob |->
        [p \in DOMAIN st.prob |->
            [j \in DOMAIN st.prob[p] |->
                IF top[p] = j - 1 /\ \A q \in eaters[j] : p <= q
                THEN RAdd(st.prob[p][j], RMulInt(dt, Cardinality(eaters[j])))
                ELSE st.prob[p][j]]]]

\* one pass of the body of the eating loop, given a nonempty dt_candidates
Eat(st, top, eaters, dt) ==
    [item_remaining |->
        [j \in DOMAIN st.item_remaining |->
            IF eaters[j] = {} THEN st.item_remaining[j]
            ELSE Clamp0(RSub(st.item_remaining[j], RMulInt(dt, Cardinality(eaters[j]))))],
     person_remaining |->
        [p \in DOMAIN st.person_remaining |->
            IF top[p] = -1 THEN st.person_remaining[p]
            ELSE Clamp0(RSub(st.person_remaining[p], dt))],
     prob |->
        [p \in DOMAIN st.prob |->
            [j \in DOMAIN st.prob[p] |->
                IF top[p] = j - 1 THEN RAdd(st.prob[p][j], dt) ELSE st.prob[p][j]]]]

\* state of the loop before its first iteration
EatInit(n_participants, n_items) ==
    [item_remaining |-> [j \in 1..n_items |-> One],
     person_remaining |-> [p \in 1..n_participants |-> One],
     prob |-> [p \in 1..n_participants |-> [j \in 1..n_items |-> Zero]]]

\* Fault variant of LoopContinues: the loop runs while someone has more than
\* one unit left to eat, that is, never
LoopContinues_above_one(st) ==
    \E p \in DOMAIN st.person_remaining : RLess(One, st.person_remaining[p])

\* while np.any(person_remaining > 1e-9)
LoopContinues(st) == \E p \in DOMAIN st.person_remaining : GtEps(st.person_remaining[p])

RECURSIVE EatLoop(_, _)
EatLoop(pref_matrix, st) ==
    IF ~LoopContinues(st) THEN st
    ELSE LET top == top_choice(pref_matrix, st.item_remaining, st.person_remaining)
             eaters == eaters_per_item(top, Len(st.item_remaining))
             cands == dt_candidates(top, eaters, st.item_remaining, st.person_remaining)
         IN  IF cands = <<>> THEN st
             ELSE EatLoop(pref_matrix, Eat(st, top, eaters, RMinSeq(cands)))

\* Fault variant of Normalize: clamps, but does not divide by the row sums
Normalize_no_division(prob) ==
    [p \in DOMAIN prob |-> [j \in DOMAIN prob[p] |-> Clamp0(prob[p][j])]]

\* prob[prob < 0] = 0; row_sums[row_sums == 0] = 1.0; prob / row_sums
Normalize(prob) ==
    LET clamped == [p \in DOMAIN prob |-> [j \in DOMAIN prob[p] |-> Clamp0(prob[p][j])]]
        row_sums == [p \in DOMAIN prob |->
                        LET s == RSum(clamped[p]) IN IF s = Zero THEN One ELSE s]
    IN  [p \in DOMAIN prob |-> [j \in DOMAIN prob[p] |-> RDiv(clamped[p][j], row_sums[p])]]

bogomolnaia_moulin(items, preferences) ==
    LET n_participants == Len(preferences)
        n_items == Len(items)
        pref_matrix == [i \in 1..n_participants |-> preferences[i].ranking]
    IN  Normalize(EatLoop(pref_matrix, EatInit(n_participants, n_items)).prob)

\* Fault variant of Choices: a uniform draw over all the indices, whatever
\* the row says
Choices_any_index(row) == {j - 1 : j \in DOMAIN row}

\* the outcomes np.random.choice(n_items, p=row) can return: the (0-based)
\* indices with positive probability
Choices(row) == {j - 1 : j \in {k \in DOMAIN row : RLess(Zero, row[k])}}

\* Fault variant of _probabilities_to_assignments: an item is drawn for one
\* participant only
probabilities_to_assignments_exclusive(probabilities) ==
    {a \in [DOMAIN probabilities -> 0..(Len(probabilities[1]) - 1)] :
        /\ \A p \in DOMAIN probabilities : a[p] \in Choices(probabilities[p])
        /\ \A p, q \in DOMAIN probabilities : a[p] = a[q] => p = q}

\* GroupDecisionBot._probabilities_to_assignments: all possible results
probabilities_to_assignments(probabilities) ==
    {a \in [DOMAIN probabilities -> 0..(Len(probabilities[1]) - 1)] :
        \A p \in DOMAIN probabilities : a[p] \in Choices(probabilities[p])}

(***************************************************************************)
(* Python dicts.  self.sessions is a function whose domain is the set of   *)
(* its keys; session['preferences'] keeps its insertion order, which fixes *)
(* the order of the rows of the probability matrix, so it is a sequence of *)
(* [user_id, ranking] entries with distinct user_ids.                      *)
(***************************************************************************)
EmptyDict == [k \in {} |-> None]

\* Fault variant of DictSet: the dict is replaced by one that holds the new
\* key only
DictSet_drops_others(d, k, v) == [x \in {k} |-> v]

DictSet(d, k, v) == [x \in (DOMAIN d) \cup {k} |-> IF x = k THEN v ELSE d[x]]

DictDel(d, k) == [x \in (DOMAIN d) \ {k} |-> d[x]]

Keys(preferences) == {preferences[i].user_id : i \in DOMAIN preferences}

\* Fault variant of PrefSet: a list of submissions instead of a dict
PrefSet_append(preferences, user_id, ranking) ==
    Append(preferences, [user_id |-> user_id, ranking |-> ranking])

\* session['preferences'][user_id] = ranking
PrefSet(preferences, user_id, ranking) ==
    IF user_id \in Keys(preferences)
    THEN [i \in DOMAIN preferences |->
            IF preferences[i].user_id = user_id
            THEN [user_id |-> user_id, ranking |-> ranking]
            ELSE preferences[i]]
    ELSE Append(preferences, [user_id |-> user_id, ranking |-> ranking])

\* the session start_session stores
NewSession(items) ==
    [items |-> items,
     preferences |-> <<>>,
     status |-> "collecting",
     probabilities |-> None,
     final_assignments |-> None]

(***************************************************************************)
(* Inputs.                                                                 *)
(***************************************************************************)
\* item lists of 2..MaxItems labels (handle_start_assignment refuses fewer than 2)
ItemLists == {SubSeq(ItemLabels, 1, m) : m \in 2..MaxItems}

Perms(k) == {f \in [1..k -> 1..k] : \A i, j \in 1..k : f[i] = f[j] => i = j}

RECURSIVE FormatRanking(_)
FormatRanking(nums) ==
    IF Len(nums) = 1 THEN <<DigitChars[nums[1] + 1]>>
    ELSE <<DigitChars[nums[1] + 1], ",">> \o FormatRanking(Tail(nums))

PermTexts == {FormatRanking(f) : f \in UNION {Perms(k) : k \in 1..MaxItems}}

OtherTexts ==
    { <<>>,
      <<"1", ",", "2", ",">>,
      <<",", "1", ",", "2">>,
      <<"1", ",", ",", "2">>,
      <<"a", ",", "b">>,
      <<"1", ",", "1">>,
      <<"1", ",", "3">>,
      <<"0", ",", "1">>,
      <<"2", ",", " ", "1">>,
      <<"0", "1", ",", "2">>,
      <<"1", ",", "2", ",", "2">>,
      <<"1", ",", "2", ",", "4">>,
      FormatRanking([i \in 1..(MaxItems + 1) |-> i]) }

RankingTexts == PermTexts \cup OtherTexts

Ret(op, group_id, kind, count) ==
    [op |-> op, group_id |-> group_id, kind |-> kind, count |-> count,
     replaced |-> FALSE]

(***************************************************************************)
(* The operations of GroupDecisionBot.  ret is what the last call          *)
(* returned: the operation, its group, the kind of its result ("ok" or the *)
(* kind of failure its message reports), for an accepted ranking the       *)
(* collected count of the message, and whether the accepted ranking        *)
(* replaced one the user already had.                                      *)
(***************************************************************************)
Init ==
    /\ sessions = EmptyDict
    /\ ret = Ret("init", "", "ok", 0)
    /\ frames = NoFrames

\* Fault variant of start_session: a completed session is replaced
start_session_replaces_completed(group_id, items) ==
    \/ /\ group_id \in DOMAIN sessions
       /\ sessions[group_id].status # "completed"
       /\ ret' = Ret("start_session", group_id, "AlreadyActive", 0)
       /\ UNCHANGED frames
       /\ UNCHANGED sessions
    \/ /\ group_id \in DOMAIN sessions => sessions[group_id].status = "completed"
       /\ sessions' = DictSet(sessions, group_id, NewSession(items))
       /\ ret' = Ret("start_session", group_id, "ok", 0)
       /\ UNCHANGED frames

start_session(group_id, items) ==
    \/ /\ group_id \in DOMAIN sessions
       /\ ret' = Ret("start_session", group_id, "AlreadyActive", 0)
       /\ UNCHANGED frames
       /\ UNCHANGED sessions
    \/ /\ group_id \notin DOMAIN sessions
       /\ sessions' = DictSet(sessions, group_id, NewSession(items))
       /\ ret' = Ret("start_session", group_id, "ok", 0)
       /\ UNCHANGED frames

\* Fault variant of cancel_session: only a collecting session is cancelled
cancel_session_collecting_only(group_id) ==
    \/ /\ group_id \in DOMAIN sessions
       /\ sessions[group_id].status = "collecting"
       /\ sessions' = DictDel(sessions, group_id)
       /\ ret' = Ret("cancel_session", group_id, "ok", 0)
       /\ UNCHANGED frames
    \/ /\ group_id \in DOMAIN sessions => sessions[group_id].status # "collecting"
       /\ ret' = Ret("cancel_session", group_id, "NoActiveSession", 0)
       /\ UNCHANGED frames
       /\ UNCHANGED sessions

cancel_session(group_id) ==
    \/ /\ group_id \in DOMAIN sessions
       /\ sessions' = DictDel(sessions, group_id)
       /\ ret' = Ret("cancel_session", group_id, "ok", 0)
       /\ UNCHANGED frames
    \/ /\ group_id \notin DOMAIN sessions
       /\ ret' = Ret("cancel_session", group_id, "NoActiveSession", 0)
       /\ UNCHANGED frames
       /\ UNCHANGED sessions

\* Fault variant of submit_ranking_out: the status of the session is not checked
submit_ranking_out_any_status(sess, group_id, user_id, ranking_text) ==
    IF group_id \notin DOMAIN sess
    THEN [sessions |-> sess,
          ret |-> Ret("submit_ranking", group_id, "NoActiveSession", 0)]
    ELSE LET session == sess[group_id]
             cleaned == StripSpace(ranking_text) IN
    IF ~is_ranking_format(cleaned, Some(Len(session.items)))
    THEN [sessions |-> sess,
          ret |-> Ret("submit_ranking", group_id, "InvalidFormat", 0)]
    ELSE LET preferences ==
                 PrefSet(session.preferences, user_id, ParseRanking(cleaned)) IN
         [sessions |-> [sess EXCEPT ![group_id].preferences = preferences],
          ret |-> [Ret("submit_ranking", group_id, "ok", Len(preferences))
                      EXCEPT !.replaced = user_id \in Keys(session.preferences)]]

\* GroupDecisionBot.submit_ranking as a function of the sessions and its
\* arguments: the sessions it leaves and what it returns
submit_ranking_out(sess, group_id, user_id, ranking_text) ==
    IF group_id \notin DOMAIN sess
    THEN [sessions |-> sess,
          ret |-> Ret("submit_ranking", group_id, "NoActiveSession", 0)]
    ELSE LET session == sess[group_id] IN
    IF session.status # "collecting"
    THEN [sessions |-> sess,
          ret |-> Ret("submit_ranking", group_id, "WrongState", 0)]
    ELSE LET cleaned == StripSpace(ranking_text) IN
    IF ~is_ranking_format(cleaned, Some(Len(session.items)))
    THEN [sessions |-> sess,
          ret |-> Ret("submit_ranking", group_id, "InvalidFormat", 0)]
    ELSE LET ranking == ParseRanking(cleaned) IN
    IF Len(ranking) # Len(session.items)
    THEN [sessions |-> sess,
          ret |-> Ret("submit_ranking", group_id, "InvalidFormat", 0)]
    ELSE LET preferences == PrefSet(session.preferences, user_id, ranking) IN
         [sessions |-> [sess EXCEPT ![group_id].preferences = preferences],
          ret |-> [Ret("submit_ranking", group_id, "ok", Len(preferences))
                      EXCEPT !.replaced = user_id \in Keys(session.preferences)]]

submit_ranking(group_id, user_id, ranking_text) ==
    LET out == submit_ranking_out(sessions, group_id, user_id, ranking_text)
    IN  /\ sessions' = out.sessions
        /\ ret' = out.ret
        /\ UNCHANGED frames

get_status(group_id) ==
    \/ /\ group_id \notin DOMAIN sessions
       /\ ret' = Ret("get_status", group_id, "NoActiveSession", 0)
       /\ UNCHANGED frames
       /\ UNCHANGED sessions
    \/ /\ group_id \in DOMAIN sessions
       /\ ret' = Ret("get_status", group_id, "ok", Len(sessions[group_id].preferences))
       /\ UNCHANGED frames
       /\ UNCHANGED sessions

\* the successful branch of run_algorithm
RunSolver(group_id) ==
    /\ LET session == sessions[group_id]
           probabilities == bogomolnaia_moulin(session.items, session.preferences)
       IN  sessions' = [sessions EXCEPT
               ![group_id].probabilities = Some(probabilities),
               ![group_id].status = "algorithm_run"]
    /\ ret' = Ret("run_algorithm", group_id, "ok", 0)
    /\ UNCHANGED frames

\* Fault variant of run_algorithm: the status of the session is not checked
run_algorithm_any_status(group_id) ==
    \/ /\ group_id \notin DOMAIN sessions
       /\ ret' = Ret("run_algorithm", group_id, "NoActiveSession", 0)
       /\ UNCHANGED frames
       /\ UNCHANGED sessions
    \/ /\ group_id \in DOMAIN sessions
       /\ Len(sessions[group_id].preferences) < Len(sessions[group_id].items)
       /\ ret' = Ret("run_algorithm", group_id, "InsufficientRankings", 0)
       /\ UNCHANGED frames
       /\ UNCHANGED sessions
    \/ /\ group_id \in DOMAIN sessions
       /\ Len(sessions[group_id].preferences) >= Len(sessions[group_id].items)
       /\ RunSolver(group_id)

\* Fault variant of run_algorithm: only a completed session is refused, and
\* the matrix is computed again on a session in algorithm_run
run_algorithm_until_completed(group_id) ==
    \/ /\ group_id \notin DOMAIN sessions
       /\ ret' = Ret("run_algorithm", group_id, "NoActiveSession", 0)
       /\ UNCHANGED frames
       /\ UNCHANGED sessions
    \/ /\ group_id \in DOMAIN sessions
       /\ sessions[group_id].status = "completed"
       /\ ret' = Ret("run_algorithm", group_id, "WrongState", 0)
       /\ UNCHANGED frames
       /\ UNCHANGED sessions
    \/ /\ group_id \in DOMAIN sessions
       /\ sessions[group_id].status # "completed"
       /\ Len(sessions[group_id].preferences) < Len(sessions[group_id].items)
       /\ ret' = Ret("run_algorithm", group_id, "InsufficientRankings", 0)
       /\ UNCHANGED frames
       /\ UNCHANGED sessions
    \/ /\ group_id \in DOMAIN sessions
       /\ sessions[group_id].status # "completed"
       /\ Len(sessions[group_id].preferences) >= Len(sessions[group_id].items)
       /\ RunSolver(group_id)

\* Fault variant of run_algorithm: as many rankings as items are required
run_algorithm_exact_count(group_id) ==
    \/ /\ group_id \notin DOMAIN sessions
       /\ ret' = Ret("run_algorithm", group_id, "NoActiveSession", 0)
       /\ UNCHANGED frames
       /\ UNCHANGED sessions
    \/ /\ group_id \in DOMAIN sessions
       /\ sessions[group_id].status # "collecting"
       /\ ret' = Ret("run_algorithm", group_id, "WrongState", 0)
       /\ UNCHANGED frames
       /\ UNCHANGED sessions
    \/ /\ group_id \in DOMAIN sessions
       /\ sessions[group_id].status = "collecting"
       /\ Len(sessions[group_id].preferences) # Len(sessions[group_id].items)
       /\ ret' = Ret("run_algorithm", group_id, "InsufficientRankings", 0)
       /\ UNCHANGED frames
       /\ UNCHANGED sessions
    \/ /\ group_id \in DOMAIN sessions
       /\ sessions[group_id].status = "collecting"
       /\ Len(sessions[group_id].preferences) = Len(sessions[group_id].items)
       /\ RunSolver(group_id)

run_algorithm(group_id) ==
    \/ /\ group_id \notin DOMAIN sessions
       /\ ret' = Ret("run_algorithm", group_id, "NoActiveSession", 0)
       /\ UNCHANGED frames
       /\ UNCHANGED sessions
    \/ /\ group_id \in DOMAIN sessions
       /\ sessions[group_id].status # "collecting"
       /\ ret' = Ret("run_algorithm", group_id, "WrongState", 0)
       /\ UNCHANGED frames
       /\ UNCHANGED sessions
    \/ /\ group_id \in DOMAIN sessions
       /\ sessions[group_id].status = "collecting"
       /\ Len(sessions[group_id].preferences) < Len(sessions[group_id].items)
       /\ ret' = Ret("run_algorithm", group_id, "InsufficientRankings", 0)
       /\ UNCHANGED frames
       /\ UNCHANGED sessions
    \/ /\ group_id \in DOMAIN sessions
       /\ sessions[group_id].status = "collecting"
       /\ Len(sessions[group_id].preferences) >= Len(sessions[group_id].items)
       /\ RunSolver(group_id)

\* Fault variant of RunSampler: the assignment is stored, the status is not
\* advanced
RunSampler_keeps_status(group_id) ==
    /\ \E assignments \in probabilities_to_assignments(sessions[group_id].probabilities[1]) :
         sessions' = [sessions EXCEPT
             ![group_id].final_assignments = Some(assignments)]
    /\ ret' = Ret("make_final_assignments", group_id, "ok", 0)
    /\ UNCHANGED frames

\* the successful branch of make_final_assignments
RunSampler(group_id) ==
    /\ \E assignments \in probabilities_to_assignments(sessions[group_id].probabilities[1]) :
         sessions' = [sessions EXCEPT
             ![group_id].final_assignments = Some(assignments),
             ![group_id].status = "completed"]
    /\ ret' = Ret("make_final_assignments", group_id, "ok", 0)
    /\ UNCHANGED frames

\* Fault variant of make_final_assignments: only a collecting session is
\* refused, so a completed session is sampled again
make_final_assignments_again(group_id) ==
    \/ /\ group_id \notin DOMAIN sessions
       /\ ret' = Ret("make_final_assignments", group_id, "NoActiveSession", 0)
       /\ UNCHANGED frames
       /\ UNCHANGED sessions
    \/ /\ group_id \in DOMAIN sessions
       /\ sessions[group_id].status = "collecting"
       /\ ret' = Ret("make_final_assignments", group_id, "WrongState", 0)
       /\ UNCHANGED frames
       /\ UNCHANGED sessions
    \/ /\ group_id \in DOMAIN sessions
       /\ sessions[group_id].status # "collecting"
       /\ RunSampler(group_id)

make_final_assignments(group_id) ==
    \/ /\ group_id \notin DOMAIN sessions
       /\ ret' = Ret("make_final_assignments", group_id, "NoActiveSession", 0)
       /\ UNCHANGED frames
       /\ UNCHANGED sessions
    \/ /\ group_id \in DOMAIN sessions
       /\ sessions[group_id].status # "algorithm_run"
       /\ ret' = Ret("make_final_assignments", group_id, "WrongState", 0)
       /\ UNCHANGED frames
       /\ UNCHANGED sessions
    \/ /\ group_id \in DOMAIN sessions
       /\ sessions[group_id].status = "algorithm_run"
       /\ RunSampler(group_id)

Next ==
    \/ \E g \in Groups, items \in ItemLists : start_session(g, items)
    \/ \E g \in Groups : cancel_session(g)
    \/ \E g \in Groups, u \in Users, t \in RankingTexts : submit_ranking(g, u, t)
    \/ \E g \in Groups : get_status(g)
    \/ \E g \in Groups : run_algorithm(g)
    \/ \E g \in Groups : make_final_assignments(g)

Spec == Init /\ [][Next]_vars

(***************************************************************************)
(* Vocabulary of the properties.                                           *)
(***************************************************************************)
\* the step is a call of op on group g (ret' is what that call returned)
Called(op, g) == ret'.op = op /\ ret'.group_id = g

Returned(op, g, kind) == ret.op = op /\ ret.group_id = g /\ ret.kind = kind

\* the session of g exists before and after the step
Persists(g) == g \in DOMAIN sessions /\ g \in DOMAIN sessions'

\* ranking is a permutation of 0..n-1
IsPermutation(ranking, n) ==
    /\ Len(ranking) = n
    /\ \A i \in DOMAIN ranking : ranking[i] \in 0..(n - 1)
    /\ \A i, j \in DOMAIN ranking : ranking[i] = ranking[j] => i = j

\* the text, spaces aside, is numerals separated by single commas that
\* denote (1-based) the 0-based ranking
Denotes(text, ranking) ==
    LET toks == SplitComma(StripSpace(text))
    IN  /\ Len(toks) = Len(ranking)
        /\ \A i \in DOMAIN toks :
              /\ toks[i] # <<>>
              /\ \A k \in DOMAIN toks[i] : IsDigit(toks[i][k])
              /\ ParseInt(toks[i]) = ranking[i] + 1

\* the text, spaces aside, is numerals separated by single commas that
\* denote (1-based) some permutation of 0..n-1
IsPermutationText(text, n) ==
    LET toks == SplitComma(StripSpace(text))
    IN  /\ \A i \in DOMAIN toks :
              toks[i] # <<>> /\ \A k \in DOMAIN toks[i] : IsDigit(toks[i][k])
        /\ IsPermutation([i \in DOMAIN toks |-> ParseInt(toks[i]) - 1], n)

\* |x - y| <= 1e-6
WithinTol(x, y) ==
    LET d == RSub(x, y)
    IN  d[1] = 0 \/ (d[2] \div Abs(d[1])) >= 1000000

Entry(preferences, user_id) ==
    preferences[CHOOSE i \in DOMAIN preferences : preferences[i].user_id = user_id]

(***************************************************************************)
(* C1: within a session the status only ever changes collecting ->         *)
(* algorithm_run, by a successful run_algorithm on that group, and         *)
(* algorithm_run -> completed, by a successful make_final_assignments on   *)
(* that group; it never moves backwards, never skips algorithm_run, and no *)
(* other command changes it.                                               *)
(***************************************************************************)
C1_StatusStep ==
    \A g \in Groups :
        Persists(g) =>
            \/ sessions'[g].status = sessions[g].status
            \/ /\ sessions[g].status = "collecting"
               /\ sessions'[g].status = "algorithm_run"
               /\ Called("run_algorithm", g) /\ ret'.kind = "ok"
            \/ /\ sessions[g].status = "algorithm_run"
               /\ sessions'[g].status = "completed"
               /\ Called("make_final_assignments", g) /\ ret'.kind = "ok"

C1_StatusForwardOnly == [][C1_StatusStep]_vars

\* a session that went through both transitions
C1_Witness ==
    \E g \in DOMAIN sessions :
        /\ sessions[g].status = "completed"
        /\ Returned("make_final_assignments", g, "ok")

(***************************************************************************)
(* C2: run_algorithm succeeds at most once per session: it succeeds only   *)
(* from collecting and leaves collecting; on a session that has left       *)
(* collecting (one run_algorithm has succeeded) every run_algorithm fails  *)
(* with WrongState and leaves the probabilities and the status unchanged.  *)
(***************************************************************************)
C2_RunStep ==
    \A g \in Groups :
        (g \in DOMAIN sessions /\ Called("run_algorithm", g)) =>
            /\ ret'.kind = "ok" =>
                  /\ sessions[g].status = "collecting"
                  /\ sessions'[g].status = "algorithm_run"
            /\ sessions[g].status # "collecting" =>
                  /\ ret'.kind = "WrongState"
                  /\ g \in DOMAIN sessions'
                  /\ sessions'[g].probabilities = sessions[g].probabilities
                  /\ sessions'[g].status = sessions[g].status

C2_RunAtMostOnce == [][C2_RunStep]_vars

\* a second run_algorithm was refused on a session whose matrix is stored
C2_Witness ==
    \E g \in DOMAIN sessions :
        /\ Returned("run_algorithm", g, "WrongState")
        /\ sessions[g].probabilities # None

(***************************************************************************)
(* C3: make_final_assignments succeeds exactly when the status is          *)
(* algorithm_run, and then stores the assignment and completes; on a       *)
(* collecting or completed session it fails with WrongState and changes    *)
(* neither status nor final_assignments.                                   *)
(***************************************************************************)
C3_MakeStep ==
    \A g \in Groups :
        (g \in DOMAIN sessions /\ Called("make_final_assignments", g)) =>
            /\ ret'.kind = "ok" <=> sessions[g].status = "algorithm_run"
            /\ ret'.kind = "ok" =>
                  /\ sessions'[g].status = "completed"
                  /\ sessions'[g].final_assignments # None
            /\ sessions[g].status # "algorithm_run" =>
                  /\ ret'.kind = "WrongState"
                  /\ g \in DOMAIN sessions'
                  /\ sessions'[g].status = sessions[g].status
                  /\ sessions'[g].final_assignments = sessions[g].final_assignments

C3_MakeOnlyAfterRun == [][C3_MakeStep]_vars

\* a second make_final_assignments was refused on a completed session
C3_Witness ==
    \E g \in DOMAIN sessions :
        /\ Returned("make_final_assignments", g, "WrongState")
        /\ sessions[g].status = "completed"

(***************************************************************************)
(* C4: on a collecting session run_algorithm succeeds if and only if the   *)
(* number of rankings is at least the number of items; when it fails with  *)
(* InsufficientRankings the session is unchanged (still collecting, no     *)
(* probabilities), and in the state it leaves every participant can still  *)
(* submit a ranking with success.                                          *)
(***************************************************************************)
C4_RunStep ==
    \A g \in Groups :
        (g \in DOMAIN sessions /\ sessions[g].status = "collecting"
            /\ Called("run_algorithm", g)) =>
            /\ ret'.kind = "ok" <=>
                  Len(sessions[g].preferences) >= Len(sessions[g].items)
            /\ Len(sessions[g].preferences) < Len(sessions[g].items) =>
                  /\ ret'.kind = "InsufficientRankings"
                  /\ sessions' = sessions

C4_AfterRefusal ==
    \A g \in Groups :
        Returned("run_algorithm", g, "InsufficientRankings") =>
            /\ g \in DOMAIN sessions
            /\ sessions[g].status = "collecting"
            /\ sessions[g].probabilities = None
            /\ \A u \in Users : \E t \in RankingTexts :
                  submit_ranking_out(sessions, g, u, t).ret.kind = "ok"

C4_RunNeedsEnoughRankings == []C4_AfterRefusal /\ [][C4_RunStep]_vars

\* run_algorithm was refused one ranking short of the number of items
C4_Witness ==
    \E g \in DOMAIN sessions :
        /\ Returned("run_algorithm", g, "InsufficientRankings")
        /\ Len(sessions[g].preferences) = Len(sessions[g].items) - 1
        /\ Len(sessions[g].preferences) > 0

(***************************************************************************)
(* C5: every ranking stored in a session's preferences is a permutation of *)
(* 0..len(items)-1, and on a collecting session no submit_ranking whose    *)
(* text does not denote such a permutation can do anything but fail with   *)
(* InvalidFormat and store nothing.                                        *)
(***************************************************************************)
C5_StoredArePermutations ==
    \A g \in DOMAIN sessions :
        \A i \in DOMAIN sessions[g].preferences :
            IsPermutation(sessions[g].preferences[i].ranking, Len(sessions[g].items))

C5_BadTextRefused ==
    \A g \in DOMAIN sessions :
        sessions[g].status = "collecting" =>
            \A t \in RankingTexts :
                ~IsPermutationText(t, Len(sessions[g].items)) =>
                    \A u \in Users :
                        LET out == submit_ranking_out(sessions, g, u, t)
                        IN  out.ret.kind = "InvalidFormat" /\ out.sessions = sessions

C5_OnlyPermutationsStored == C5_StoredArePermutations /\ C5_BadTextRefused

\* a text that is no permutation was refused while rankings are stored
C5_Witness ==
    \E g \in DOMAIN sessions :
        /\ Returned("submit_ranking", g, "InvalidFormat")
        /\ Len(sessions[g].preferences) >= 2

(***************************************************************************)
(* C6: once a session has left collecting, every submit_ranking on it      *)
(* fails with WrongState, whatever its text, and its preferences never     *)
(* change again; the stored probabilities and final_assignments have one   *)
(* entry per participant of the preferences.                               *)
(***************************************************************************)
C6_FrozenStep ==
    \A g \in Groups :
        (g \in DOMAIN sessions /\ sessions[g].status # "collecting") =>
            /\ g \in DOMAIN sessions' =>
                  sessions'[g].preferences = sessions[g].preferences
            /\ Called("submit_ranking", g) =>
                  /\ ret'.kind = "WrongState"
                  /\ sessions' = sessions

C6_SameParticipants ==
    \A g \in DOMAIN sessions :
        /\ sessions[g].probabilities # None =>
              Len(sessions[g].probabilities[1]) = Len(sessions[g].preferences)
        /\ sessions[g].final_assignments # None =>
              Len(sessions[g].final_assignments[1]) = Len(sessions[g].preferences)

C6_NoRankingAfterCollecting == []C6_SameParticipants /\ [][C6_FrozenStep]_vars

\* a ranking was refused on a completed session
C6_Witness ==
    \E g \in DOMAIN sessions :
        /\ Returned("submit_ranking", g, "WrongState")
        /\ sessions[g].status = "completed"
        /\ sessions[g].final_assignments # None

(***************************************************************************)
(* C7: the participants of the preferences are distinct, and a             *)
(* submit_ranking of user u that is accepted can only set u's entry to the *)
(* ranking its text denotes, keep every other entry, add an entry exactly  *)
(* when u had none, and return as count the number of distinct             *)
(* participants; when u already holds that ranking it leaves the session   *)
(* unchanged.                                                              *)
(***************************************************************************)
C7_DistinctParticipants ==
    \A g \in DOMAIN sessions :
        Len(sessions[g].preferences) = Cardinality(Keys(sessions[g].preferences))

\* what an accepted ranking t of user u has done to the session of g
C7_Overwrote(g, u, t, out) ==
    LET old == sessions[g].preferences
        new == out.sessions[g].preferences
    IN  /\ Keys(new) = Keys(old) \cup {u}
        /\ Len(new) = Cardinality(Keys(new))
        /\ out.ret.count = Cardinality(Keys(new))
        /\ out.ret.replaced <=> u \in Keys(old)
        /\ Denotes(t, Entry(new, u).ranking)
        /\ \A v \in Keys(old) \ {u} : Entry(new, v) = Entry(old, v)
        /\ out.sessions = [sessions EXCEPT ![g].preferences = new]
        /\ (u \in Keys(old) /\ Denotes(t, Entry(old, u).ranking)) =>
              out.sessions = sessions

C7_AcceptedOverwrites ==
    \A g \in DOMAIN sessions :
        sessions[g].status = "collecting" =>
            \A u \in Users, t \in RankingTexts :
                LET out == submit_ranking_out(sessions, g, u, t)
                IN  out.ret.kind = "ok" => C7_Overwrote(g, u, t, out)

C7_ResubmissionOverwrites == C7_DistinctParticipants /\ C7_AcceptedOverwrites

\* the first of two participants replaced their ranking
C7_Witness ==
    \E g \in DOMAIN sessions :
        /\ Returned("submit_ranking", g, "ok")
        /\ ret.replaced
        /\ ret.count = 2
        /\ Len(sessions[g].preferences) = 2
        /\ sessions[g].preferences[1].ranking # sessions[g].preferences[2].ranking

(***************************************************************************)
(* C8: start_session fails with AlreadyActive whenever the group has a     *)
(* session, whatever its status, and leaves it unchanged; when the group   *)
(* has none it creates one: collecting, with the items given, no           *)
(* preferences, no probabilities and no final_assignments.                 *)
(***************************************************************************)
C8_StartStep ==
    \A g \in Groups :
        Called("start_session", g) =>
            /\ g \in DOMAIN sessions =>
                  /\ ret'.kind = "AlreadyActive"
                  /\ sessions' = sessions
            /\ g \notin DOMAIN sessions =>
                  /\ ret'.kind = "ok"
                  /\ DOMAIN sessions' = (DOMAIN sessions) \cup {g}
                  /\ sessions'[g].items \in ItemLists
                  /\ sessions'[g].status = "collecting"
                  /\ sessions'[g].preferences = <<>>
                  /\ sessions'[g].probabilities = None
                  /\ sessions'[g].final_assignments = None
                  /\ \A h \in DOMAIN sessions : sessions'[h] = sessions[h]

C8_OneSessionPerGroup == [][C8_StartStep]_vars

\* a start was refused on a completed session
C8_Witness ==
    \E g \in DOMAIN sessions :
        /\ Returned("start_session", g, "AlreadyActive")
        /\ sessions[g].status = "completed"

(***************************************************************************)
(* C9: cancel_session removes the session of the group in any status, and  *)
(* a start_session that follows succeeds; on a group with no session it    *)
(* returns failure and no session exists for the group afterwards.         *)
(***************************************************************************)
C9_CancelStep ==
    \A g \in Groups :
        /\ Called("cancel_session", g) =>
              /\ g \in DOMAIN sessions =>
                    /\ ret'.kind = "ok"
                    /\ sessions' = DictDel(sessions, g)
              /\ g \notin DOMAIN sessions =>
                    /\ ret'.kind = "NoActiveSession"
                    /\ sessions' = sessions
              /\ g \notin DOMAIN sessions'
        /\ (Returned("cancel_session", g, "ok") /\ Called("start_session", g)) =>
              /\ ret'.kind = "ok"
              /\ g \in DOMAIN sessions'

C9_CancelInAnyStatus == [][C9_CancelStep]_vars

\* a cancel returned failure after the session had been cancelled
C9_Witness ==
    \E g \in Groups :
        /\ Returned("cancel_session", g, "NoActiveSession")
        /\ g \notin DOMAIN sessions

(***************************************************************************)
(* C10: every row of a stored probability matrix is a probability          *)
(* distribution: one entry per item, all entries in [0, 1], and the row    *)
(* sums to 1 within 1e-6.                                                  *)
(***************************************************************************)
IsDistribution(row) ==
    /\ \A j \in DOMAIN row : ~RLess(row[j], Zero) /\ ~RLess(One, row[j])
    /\ WithinTol(RSum(row), One)

C10_RowsAreDistributions ==
    \A g \in DOMAIN sessions :
        sessions[g].probabilities # None =>
            \A p \in DOMAIN sessions[g].probabilities[1] :
                /\ Len(sessions[g].probabilities[1][p]) = Len(sessions[g].items)
                /\ IsDistribution(sessions[g].probabilities[1][p])

\* a matrix of more participants than items, with a fractional row
C10_Witness ==
    \E g \in DOMAIN sessions :
        /\ sessions[g].probabilities # None
        /\ Len(sessions[g].probabilities[1]) > Len(sessions[g].items)
        /\ \E p \in DOMAIN sessions[g].probabilities[1] :
              \E j \in DOMAIN sessions[g].probabilities[1][p] :
                  /\ RLess(Zero, sessions[g].probabilities[1][p][j])
                  /\ RLess(sessions[g].probabilities[1][p][j], One)

(***************************************************************************)
(* The solver step by step: one call of _bogomolnaia_moulin on a profile   *)
(* of full rankings, one pass of its while loop per step.  The frame of    *)
(* the call holds its arguments, the loop's arrays (st), the number of     *)
(* passes of the loop begun so far, its position and what it returned.     *)
(***************************************************************************)
MaxParticipants == 3

Main == "t1"

UserIds == <<"u1", "u2", "u3", "u4", "u5", "u6">>

\* the item lists the solver is run on
SolverItemLists == {SubSeq(ItemLabels, 1, 2), SubSeq(ItemLabels, 1, 3)}

\* the full rankings of m items: the permutations of 0..m-1
Rankings(m) == {[i \in 1..m |-> f[i] - 1] : f \in Perms(m)}

\* the preferences of n participants, each with a full ranking of m items
Profiles(n, m) ==
    {[i \in 1..n |-> [user_id |-> UserIds[i], ranking |-> rs[i]]] :
        rs \in [1..n -> Rankings(m)]}

PrefMatrix(preferences) == [i \in DOMAIN preferences |-> preferences[i].ranking]

SolverFrame(items, preferences) ==
    [fn |-> "_bogomolnaia_moulin",
     items |-> items,
     preferences |-> preferences,
     st |-> EatInit(Len(preferences), Len(items)),
     passes |-> 0,
     pc |-> "while",
     result |-> None]

SolverInit ==
    /\ sessions = EmptyDict
    /\ ret = Ret("init", "", "ok", 0)
    /\ \E items \in SolverItemLists, n \in 1..MaxParticipants :
         \E preferences \in Profiles(n, Len(items)) :
            frames = [t \in {Main} |-> SolverFrame(items, preferences)]

\* the locals of a pass of the loop, computed from the arrays at its start
\* (lines 167-192)
PassLocals(f) ==
    LET top == top_choice(PrefMatrix(f.preferences), f.st.item_remaining,
                          f.st.person_remaining)
        eaters == eaters_per_item(top, Len(f.st.item_remaining))
    IN  [top_choice |-> top,
         eaters_per_item |-> eaters,
         dt_candidates |-> dt_candidates(top, eaters, f.st.item_remaining,
                                         f.st.person_remaining)]

\* one pass of the loop that eats: lines 167-214
SolverEat(t) ==
    /\ frames[t].pc = "while"
    /\ LoopContinues(frames[t].st)
    /\ \E loc \in {PassLocals(frames[t])} :
          /\ loc.dt_candidates # <<>>
          /\ \E dt \in {RMinSeq(loc.dt_candidates)} :
                frames' = [frames EXCEPT
                    ![t].st = Eat(frames[t].st, loc.top_choice, loc.eaters_per_item, dt),
                    ![t].passes = frames[t].passes + 1]
    /\ UNCHANGED <<sessions, ret>>

\* the loop ends: its condition is false (line 166), or a pass finds no
\* dt_candidates and breaks (lines 193-195)
SolverLeave(t) ==
    \/ /\ frames[t].pc = "while"
       /\ ~LoopContinues(frames[t].st)
       /\ frames' = [frames EXCEPT ![t].pc = "normalize"]
       /\ UNCHANGED <<sessions, ret>>
    \/ /\ frames[t].pc = "while"
       /\ LoopContinues(frames[t].st)
       /\ \E loc \in {PassLocals(frames[t])} : loc.dt_candidates = <<>>
       /\ frames' = [frames EXCEPT ![t].pc = "normalize",
                                   ![t].passes = frames[t].passes + 1]
       /\ UNCHANGED <<sessions, ret>>

\* lines 216-221
SolverReturn(t) ==
    /\ frames[t].pc = "normalize"
    /\ frames' = [frames EXCEPT ![t].pc = "done",
                                ![t].result = Some(Normalize(frames[t].st.prob))]
    /\ UNCHANGED <<sessions, ret>>

SolverNext ==
    \/ SolverEat(Main)
    \/ SolverLeave(Main)
    \/ SolverReturn(Main)

SolverSpec == SolverInit /\ [][SolverNext]_vars

\* the call has not returned: exactly then a step of SolverNext is possible
\* (in "while" a pass eats or the loop is left, in "normalize" the call
\* returns)
SolverPending == frames[Main].pc # "done"

\* the thread keeps executing the call: weak fairness of SolverNext, that
\* is WF_vars(SolverNext) with ENABLED <<SolverNext>>_vars written out as
\* SolverPending, which spares the model checker the evaluation of ENABLED
\* on the eating pass
SolverFair == SolverSpec /\ ([]<>~SolverPending \/ []<><<SolverNext>>_vars)

(***************************************************************************)
(* Vocabulary of the properties of the probability matrix.                 *)
(***************************************************************************)
ColumnSum(matrix, j) == RSum([p \in DOMAIN matrix |-> matrix[p][j]])

\* x <= y + 1e-6
AtMostTol(x, y) == ~RLess(y, x) \/ WithinTol(x, y)

\* the matrix the solver call of thread Main returned
Returned_matrix == frames[Main].result[1]

SolverDone ==
    /\ Main \in DOMAIN frames
    /\ frames[Main].fn = "_bogomolnaia_moulin"
    /\ frames[Main].pc = "done"

(***************************************************************************)
(* C11: in every session on which run_algorithm succeeded (participants at *)
(* least as many as items, each with a full ranking), every column of the  *)
(* stored probabilities sums to at most 1 + 1e-6: no item is allocated     *)
(* beyond its one unit of supply.                                          *)
(* Does not hold: with more participants than items the loop stops with    *)
(* row sums below 1 and the division by the row sums (line 220) scales the *)
(* columns above 1.                                                        *)
(***************************************************************************)
C11_ColumnSumsAtMostOne ==
    \A g \in DOMAIN sessions :
        sessions[g].probabilities # None =>
            LET matrix == sessions[g].probabilities[1]
            IN  \A j \in DOMAIN sessions[g].items :
                    AtMostTol(ColumnSum(matrix, j), One)

(***************************************************************************)
(* C12: when the solver is run on as many participants as items, each with *)
(* a full ranking, every column of the matrix it returns sums to 1 (every  *)
(* item is fully consumed; with C10 the matrix is doubly stochastic), in   *)
(* particular the column of an item that every participant ranks first.   *)
(***************************************************************************)
C12_ColumnsSumToOne ==
    (SolverDone /\ Len(frames[Main].preferences) = Len(frames[Main].items)) =>
        \A j \in DOMAIN frames[Main].items :
            WithinTol(ColumnSum(Returned_matrix, j), One)

\* three participants and three items, an item that all of them rank first
\* and on which they differ afterwards; its column sums to 1
C12_Witness ==
    /\ SolverDone
    /\ Len(frames[Main].preferences) = 3
    /\ Len(frames[Main].items) = 3
    /\ \E j \in DOMAIN frames[Main].items :
          /\ \A p \in DOMAIN frames[Main].preferences :
                frames[Main].preferences[p].ranking[1] = j - 1
          /\ ColumnSum(Returned_matrix, j) = One
    /\ \E p, q \in DOMAIN frames[Main].preferences :
          frames[Main].preferences[p].ranking # frames[Main].preferences[q].ranking

(***************************************************************************)
(* C13 as stated: on items [A,B,C] with participant 1 ranking A>B>C,       *)
(* participant 2 ranking A>B>C and participant 3 ranking B>A>C the solver  *)
(* returns [0.5, 0, 0.5] for participants 1 and 2 and [0, 1, 0] for        *)
(* participant 3.                                                          *)
(* Does not hold: once A is exhausted (time 1/2) participants 1 and 2 turn *)
(* to B, their next item with supply, and share what participant 3 left.   *)
(***************************************************************************)
ClassicCase ==
    /\ SolverDone
    /\ frames[Main].items = <<"A", "B", "C">>
    /\ PrefMatrix(frames[Main].preferences) = <<<<0, 1, 2>>, <<0, 1, 2>>, <<1, 0, 2>>>>

SameRankings ==
    /\ SolverDone
    /\ Len(frames[Main].preferences) = Len(frames[Main].items)
    /\ \A p, q \in DOMAIN frames[Main].preferences :
          frames[Main].preferences[p].ranking = frames[Main].preferences[q].ranking

C14_EqualSplit ==
    SameRankings =>
        LET n == Len(frames[Main].preferences)
        IN  \A p \in 1..n : \A j \in 1..n : Returned_matrix[p][j] = Rat(1, n)

\* three participants with the same ranking C > A > B of three items, each
\* given a third of every item
C14_Witness ==
    /\ SameRankings
    /\ Len(frames[Main].preferences) = 3
    /\ frames[Main].preferences[1].ranking = <<2, 0, 1>>
    /\ Returned_matrix[1] = <<Rat(1, 3), Rat(1, 3), Rat(1, 3)>>

(***************************************************************************)
(* C15: the matrix the solver returns is envy-free in the sense of         *)
(* stochastic dominance: for all participants i and j and every k in 1..m, *)
(* the probability row i puts on the k items i ranks first is at least the *)
(* probability row j puts on those k items.                                *)
(***************************************************************************)
\* the probability the row puts on the first k items of the ranking
OnTop(row, ranking, k) == RSum([i \in 1..k |-> row[ranking[i] + 1]])

C15_EnvyFree ==
    SolverDone =>
        \A i, j \in DOMAIN frames[Main].preferences :
            \A k \in DOMAIN frames[Main].items :
                LET ranking == frames[Main].preferences[i].ranking
                IN  ~RLess(OnTop(Returned_matrix[i], ranking, k),
                           OnTop(Returned_matrix[j], ranking, k))

\* more participants than items, two of them with different rows, one
\* strictly better off with its own row on its first item
C15_Witness ==
    /\ SolverDone
    /\ Len(frames[Main].preferences) > Len(frames[Main].items)
    /\ \E i, j \in DOMAIN frames[Main].preferences :
          LET ranking == frames[Main].preferences[i].ranking
          IN  /\ RLess(OnTop(Returned_matrix[j], ranking, 1),
                       OnTop(Returned_matrix[i], ranking, 1))
              /\ RLess(Zero, OnTop(Returned_matrix[j], ranking, 1))

(***************************************************************************)
(* The validator on its own: one call of is_ranking_format on any text of  *)
(* at most MaxTextLen characters of the alphabet, without an expected      *)
(* length or with one of 0..MaxItems+1.                                    *)
(***************************************************************************)
MaxTextLen == 5

Alphabet == {"0", "1", "2", "3", ",", " ", "a"}

Texts == UNION {[1..k -> Alphabet] : k \in 0..MaxTextLen}

ExpectedLengths == {None} \cup {Some(n) : n \in 0..(MaxItems + 1)}

ValidatorFrame(text, expected_length) ==
    [fn |-> "is_ranking_format",
     text |-> text,
     expected_length |-> expected_length,
     pc |-> "call",
     result |-> None]

ValidatorInit ==
    /\ sessions = EmptyDict
    /\ ret = Ret("init", "", "ok", 0)
    /\ \E text \in Texts, expected_length \in ExpectedLengths :
          frames = [t \in {Main} |-> ValidatorFrame(text, expected_length)]

\* the call runs and returns True or False
Validate(t) ==
    \/ /\ frames[t].pc = "call"
       /\ is_ranking_format(frames[t].text, frames[t].expected_length)
       /\ frames' = [frames EXCEPT ![t].pc = "done", ![t].result = Some(TRUE)]
       /\ UNCHANGED <<sessions, ret>>
    \/ /\ frames[t].pc = "call"
       /\ ~is_ranking_format(frames[t].text, frames[t].expected_length)
       /\ frames' = [frames EXCEPT ![t].pc = "done", ![t].result = Some(FALSE)]
       /\ UNCHANGED <<sessions, ret>>

ValidatorNext == Validate(Main)

ValidatorSpec == ValidatorInit /\ [][ValidatorNext]_vars

(***************************************************************************)
(* C16: is_ranking_format accepts a text with expected length n if and     *)
(* only if, whitespace removed, the text is numerals separated by single   *)
(* commas whose values are a permutation of 1..n (so a leading or trailing *)
(* comma, a token that is not a numeral, a repeated number, a number       *)
(* outside 1..n and a length other than n are rejected); without an        *)
(* expected length it accepts exactly the permutations of 1..k, k the      *)
(* number of values given.                                                 *)
(***************************************************************************)
ValidatorDone ==
    /\ Main \in DOMAIN frames
    /\ frames[Main].fn = "is_ranking_format"
    /\ frames[Main].pc = "done"

\* the number of values of a text: one more than its commas
NumberOfValues(text) == Len(SelectSeq(text, LAMBDA c : c = ",")) + 1

C16_AcceptsExactlyPermutations ==
    ValidatorDone =>
        LET text == frames[Main].text
            n == IF frames[Main].expected_length = None
                 THEN NumberOfValues(text)
                 ELSE frames[Main].expected_length[1]
        IN  frames[Main].result[1] <=> IsPermutationText(text, n)

\* accepted with expected length 2: a permutation written with a space
C16_Witness ==
    /\ ValidatorDone
    /\ frames[Main].text = <<"2", ",", " ", "1">>
    /\ frames[Main].expected_length = Some(2)
    /\ frames[Main].result = Some(TRUE)

(***************************************************************************)
(* Two request threads on the one GroupDecisionBot (app.py: decision_bot). *)
(* The code takes no lock, so the threads interleave between the           *)
(* statements of run_algorithm and submit_ranking.  A step is a run of     *)
(* statements that reads or writes the session once: the checks at the     *)
(* head of the method, the solver run (which reads the preferences), each  *)
(* store into the session.  Each thread serves one request; its frame     *)
(* stays, with its result, after the call returned.                       *)
(***************************************************************************)
Threads == {"t1", "t2"}

\* the item list of the session the threads meet on
ConcItems == SubSeq(ItemLabels, 1, 2)

\* the sessions a race starts from: none, or a collecting session of g1 in
\* which one participant, or two, have ranked the two items
ConcSessions ==
    {EmptyDict} \cup
    {DictSet(EmptyDict, "g1", [NewSession(ConcItems) EXCEPT !.preferences = preferences]) :
        preferences \in Profiles(1, Len(ConcItems)) \cup Profiles(2, Len(ConcItems))}

\* the texts the threads submit: the rankings of the two items, and one
\* text that is not a ranking of them
ConcTexts == {FormatRanking(f) : f \in Perms(Len(ConcItems))} \cup {<<"1">>}

ConcInit ==
    /\ sessions \in ConcSessions
    /\ ret = Ret("init", "", "ok", 0)
    /\ frames = NoFrames

\* each thread serves one request
Idle(t) == t \notin DOMAIN frames

CallFrame(fn, group_id, user_id, ranking_text) ==
    [fn |-> fn,
     group_id |-> group_id,
     user_id |-> user_id,
     ranking_text |-> ranking_text,
     pc |-> "check",
     ranking |-> None,
     probabilities |-> None,
     result |-> ""]

\* handle_run_algorithm / handle_ranking: the thread enters the method
CallRunAlgorithm(t, group_id) ==
    /\ Idle(t)
    /\ frames' = DictSet(frames, t, CallFrame("run_algorithm", group_id, "", <<>>))
    /\ UNCHANGED <<sessions, ret>>

CallSubmitRanking(t, group_id, user_id, ranking_text) ==
    /\ Idle(t)
    /\ frames' = DictSet(frames, t,
                     CallFrame("submit_ranking", group_id, user_id, ranking_text))
    /\ UNCHANGED <<sessions, ret>>

\* the call of thread t returns
Return(t, kind, count) ==
    /\ frames' = [frames EXCEPT ![t].pc = "returned", ![t].result = kind]
    /\ ret' = Ret(frames[t].fn, frames[t].group_id, kind, count)

\* run_algorithm, lines 98-107
RunCheck(t) ==
    /\ t \in DOMAIN frames
    /\ frames[t].fn = "run_algorithm"
    /\ frames[t].pc = "check"
    /\ LET g == frames[t].group_id
       IN  \/ /\ g \notin DOMAIN sessions
              /\ Return(t, "NoActiveSession", 0)
           \/ /\ g \in DOMAIN sessions
              /\ sessions[g].status # "collecting"
              /\ Return(t, "WrongState", 0)
           \/ /\ g \in DOMAIN sessions
              /\ sessions[g].status = "collecting"
              /\ Len(sessions[g].preferences) < Len(sessions[g].items)
              /\ Return(t, "InsufficientRankings", 0)
           \/ /\ g \in DOMAIN sessions
              /\ sessions[g].status = "collecting"
              /\ Len(sessions[g].preferences) >= Len(sessions[g].items)
              /\ frames' = [frames EXCEPT ![t].pc = "solve"]
              /\ UNCHANGED ret
    /\ UNCHANGED sessions

\* line 111: the solver reads the preferences as they are now
RunSolve(t) ==
    /\ t \in DOMAIN frames
    /\ frames[t].fn = "run_algorithm"
    /\ frames[t].pc = "solve"
    /\ LET session == sessions[frames[t].group_id]
       IN  frames' = [frames EXCEPT
               ![t].probabilities =
                   Some(bogomolnaia_moulin(session.items, session.preferences)),
               ![t].pc = "store_probabilities"]
    /\ UNCHANGED <<sessions, ret>>

\* line 112
RunStoreProbabilities(t) ==
    /\ t \in DOMAIN frames
    /\ frames[t].fn = "run_algorithm"
    /\ frames[t].pc = "store_probabilities"
    /\ sessions' = [sessions EXCEPT
           ![frames[t].group_id].probabilities = frames[t].probabilities]
    /\ frames' = [frames EXCEPT ![t].pc = "store_status"]
    /\ UNCHANGED ret

\* lines 113-120
RunStoreStatus(t) ==
    /\ t \in DOMAIN frames
    /\ frames[t].fn = "run_algorithm"
    /\ frames[t].pc = "store_status"
    /\ sessions' = [sessions EXCEPT ![frames[t].group_id].status = "algorithm_run"]
    /\ Return(t, "ok", 0)

\* submit_ranking, lines 50-56
SubmitCheck(t) ==
    /\ t \in DOMAIN frames
    /\ frames[t].fn = "submit_ranking"
    /\ frames[t].pc = "check"
    /\ LET g == frames[t].group_id
       IN  \/ /\ g \notin DOMAIN sessions
              /\ Return(t, "NoActiveSession", 0)
           \/ /\ g \in DOMAIN sessions
              /\ sessions[g].status # "collecting"
              /\ Return(t, "WrongState", 0)
           \/ /\ g \in DOMAIN sessions
              /\ sessions[g].status = "collecting"
              /\ frames' = [frames EXCEPT ![t].pc = "validate"]
              /\ UNCHANGED ret
    /\ UNCHANGED sessions

\* lines 59-67; session is the dict read at line 53, its items never change
SubmitValidate(t) ==
    /\ t \in DOMAIN frames
    /\ frames[t].fn = "submit_ranking"
    /\ frames[t].pc = "validate"
    /\ LET session == sessions[frames[t].group_id]
           cleaned == StripSpace(frames[t].ranking_text)
       IN  \/ /\ ~is_ranking_format(cleaned, Some(Len(session.items)))
              /\ Return(t, "InvalidFormat", 0)
           \/ /\ is_ranking_format(cleaned, Some(Len(session.items)))
              /\ frames' = [frames EXCEPT ![t].ranking = Some(ParseRanking(cleaned)),
                                          ![t].pc = "store"]
              /\ UNCHANGED ret
    /\ UNCHANGED sessions

\* lines 70-72
SubmitStore(t) ==
    /\ t \in DOMAIN frames
    /\ frames[t].fn = "submit_ranking"
    /\ frames[t].pc = "store"
    /\ LET g == frames[t].group_id
           preferences == PrefSet(sessions[g].preferences, frames[t].user_id,
                                  frames[t].ranking[1])
       IN  /\ sessions' = [sessions EXCEPT ![g].preferences = preferences]
           /\ Return(t, "ok", Len(preferences))

ConcNext ==
    \/ \E t \in Threads, g \in Groups : CallRunAlgorithm(t, g)
    \/ \E t \in Threads, g \in Groups, u \in Users, text \in ConcTexts :
          CallSubmitRanking(t, g, u, text)
    \/ \E t \in Threads : RunCheck(t)
    \/ \E t \in Threads : RunSolve(t)
    \/ \E t \in Threads : RunStoreProbabilities(t)
    \/ \E t \in Threads : RunStoreStatus(t)
    \/ \E t \in Threads : SubmitCheck(t)
    \/ \E t \in Threads : SubmitValidate(t)
    \/ \E t \in Threads : SubmitStore(t)

ConcSpec == ConcInit /\ [][ConcNext]_vars

(***************************************************************************)
(* C17: two run_algorithm calls that run concurrently on the session of    *)
(* one group cannot both succeed: whatever the interleaving of their       *)
(* status check, solver run and status write, at most one of them stores   *)
(* the probabilities and returns success.                                  *)
(* Does not hold: nothing separates the check of line 103 from the write   *)
(* of line 113, so both calls pass the check before either writes.         *)
(***************************************************************************)
Succeeded(t, fn, g) ==
    /\ t \in DOMAIN frames
    /\ frames[t].fn = fn
    /\ frames[t].group_id = g
    /\ frames[t].pc = "returned"
    /\ frames[t].result = "ok"

C17_AtMostOneRunSucceeds ==
    \A g \in Groups :
        \A t1, t2 \in Threads :
            (Succeeded(t1, "run_algorithm", g) /\ Succeeded(t2, "run_algorithm", g))
                => t1 = t2

(***************************************************************************)
(* C18: a submit_ranking that runs concurrently with run_algorithm on the  *)
(* same session cannot pass the collecting check and store afterwards:     *)
(* whatever the interleaving, in every state where the probabilities are   *)
(* present they have as many rows as the preferences have participants.    *)
(* Does not hold: submit_ranking checks the status at line 55 and stores   *)
(* at line 70; run_algorithm can read the preferences and store its matrix *)
(* in between.                                                             *)
(***************************************************************************)
C18_RowsMatchParticipants ==
    \A g \in DOMAIN sessions :
        sessions[g].probabilities # None =>
            Len(sessions[g].probabilities[1]) = Len(sessions[g].preferences)

(***************************************************************************)
(* C19: in every pass of the eating loop each participant with appetite    *)
(* left eats only from the first item of their ranking that still has      *)
(* supply, and all k participants on the same item gain the same amount dt *)
(* of it while its supply falls by k*dt, none of them before another;      *)
(* hence throughout the loop, for every item the remaining supply plus all *)
(* that is allocated of it is 1, and for every participant the remaining   *)
(* appetite plus all that is allocated to them is 1.                       *)
(***************************************************************************)
InSolver == Main \in DOMAIN frames /\ frames[Main].fn = "_bogomolnaia_moulin"

\* the step is a pass of the loop that eats
EatingPass ==
    /\ InSolver
    /\ frames'[Main].pc = "while"
    /\ frames'[Main].passes = frames[Main].passes + 1

\* the positions of the ranking of p whose item has supply (before the step)
WithSupply(p) ==
    {i \in DOMAIN frames[Main].preferences[p].ranking :
        GtEps(frames[Main].st.item_remaining[frames[Main].preferences[p].ranking[i] + 1])}

Hungry(p) == GtEps(frames[Main].st.person_remaining[p])

\* p eats item j (1-based) in this pass: the first of its ranking with supply
Targets(p, j) ==
    /\ Hungry(p)
    /\ \E i \in WithSupply(p) :
          /\ \A h \in WithSupply(p) : i <= h
          /\ frames[Main].preferences[p].ranking[i] = j - 1

\* what p gains of item j in the step
Gain(p, j) == RSub(frames'[Main].st.prob[p][j], frames[Main].st.prob[p][j])

C19_EatStep ==
    EatingPass =>
        LET P == DOMAIN frames[Main].preferences
            J == DOMAIN frames[Main].items
        IN  /\ \A p \in P : \A j \in J :
                  IF Targets(p, j) THEN RLess(Zero, Gain(p, j)) ELSE Gain(p, j) = Zero
            /\ \A j \in J : \A p, q \in P :
                  (Targets(p, j) /\ Targets(q, j)) => Gain(p, j) = Gain(q, j)
            /\ \A j \in J : \A p \in P :
                  Targets(p, j) =>
                      RSub(frames[Main].st.item_remaining[j],
                           frames'[Main].st.item_remaining[j])
                        = RMulInt(Gain(p, j), Cardinality({q \in P : Targets(q, j)}))

C19_Conservation ==
    InSolver =>
        LET st == frames[Main].st
        IN  /\ \A j \in DOMAIN st.item_remaining :
                  RAdd(st.item_remaining[j], ColumnSum(st.prob, j)) = One
            /\ \A p \in DOMAIN st.person_remaining :
                  RAdd(st.person_remaining[p], RSum(st.prob[p])) = One

\* C19: the sums are conserved in every state of the loop and every pass
\* that eats feeds each participant from its target, equally per item
C19_EqualRateEating == []C19_Conservation /\ [][C19_EatStep]_vars

\* in the loop after two passes: two participants hold the same positive
\* amount of an item, a third none of it, and some item is partly eaten
C19_Witness ==
    /\ InSolver
    /\ frames[Main].pc = "while"
    /\ frames[Main].passes = 2
    /\ \E j \in DOMAIN frames[Main].items :
          \E p, q, r \in DOMAIN frames[Main].preferences :
              /\ p # q
              /\ RLess(Zero, frames[Main].st.prob[p][j])
              /\ frames[Main].st.prob[p][j] = frames[Main].st.prob[q][j]
              /\ frames[Main].st.prob[r][j] = Zero
    /\ \E j \in DOMAIN frames[Main].items :
          /\ RLess(Zero, frames[Main].st.item_remaining[j])
          /\ RLess(frames[Main].st.item_remaining[j], One)

(***************************************************************************)
(* C20: on n >= 1 participants with full rankings of m >= 2 items the      *)
(* eating loop terminates, after at most n + m passes: every pass that     *)
(* eats exhausts the supply of at least one item or the appetite of at     *)
(* least one participant.                                                  *)
(***************************************************************************)
C20_Bound ==
    InSolver =>
        frames[Main].passes <= Len(frames[Main].preferences) + Len(frames[Main].items)

C20_PassExhausts ==
    EatingPass =>
        \/ \E j \in DOMAIN frames[Main].items :
              /\ GtEps(frames[Main].st.item_remaining[j])
              /\ ~GtEps(frames'[Main].st.item_remaining[j])
        \/ \E p \in DOMAIN frames[Main].preferences :
              /\ GtEps(frames[Main].st.person_remaining[p])
              /\ ~GtEps(frames'[Main].st.person_remaining[p])

Sampled == {g \in DOMAIN sessions : sessions[g].final_assignments # None}

\* C21: after a successful make_final_assignments the final assignment has
\* exactly one item index per row of the probability matrix, each index is
\* one of 0..m-1, and the item it names has strictly positive probability in
\* that participant's row
C21_AssignmentWithinSupport ==
    \A g \in Sampled :
        LET matrix == sessions[g].probabilities[1]
            assignments == sessions[g].final_assignments[1]
        IN  /\ sessions[g].status = "completed"
            /\ DOMAIN assignments = DOMAIN matrix
            /\ \A p \in DOMAIN assignments :
                  /\ assignments[p] \in 0..(Len(sessions[g].items) - 1)
                  /\ RLess(Zero, matrix[p][assignments[p] + 1])

\* make_final_assignments has just succeeded on a matrix with a zero entry
\* and a fractional entry
C21_Witness ==
    /\ ret.op = "make_final_assignments"
    /\ ret.kind = "ok"
    /\ ret.group_id \in Sampled
    /\ \E p \in DOMAIN sessions[ret.group_id].probabilities[1] :
          \E j \in DOMAIN sessions[ret.group_id].probabilities[1][p] :
              sessions[ret.group_id].probabilities[1][p][j] = Zero
    /\ \E p \in DOMAIN sessions[ret.group_id].probabilities[1] :
          \E j \in DOMAIN sessions[ret.group_id].probabilities[1][p] :
              /\ RLess(Zero, sessions[ret.group_id].probabilities[1][p][j])
              /\ RLess(sessions[ret.group_id].probabilities[1][p][j], One)

\* the assignment gives the item of index j (0-based) to two participants
SharedItem(assignments, j) ==
    \E p, q \in DOMAIN assignments :
        p # q /\ assignments[p] = j /\ assignments[q] = j

\* C22: the sampler does not enforce exclusivity: whenever the matrix
\* make_final_assignments is about to sample from gives one item positive
\* probability in the rows of two participants, one of the assignments the
\* sampler can return gives that item to both of them
C22_SamplerNotExclusive ==
    \A g \in DOMAIN sessions :
        sessions[g].status = "algorithm_run" =>
            LET matrix == sessions[g].probabilities[1]
            IN  \A j \in DOMAIN sessions[g].items :
                    (\E p, q \in DOMAIN matrix :
                        /\ p # q
                        /\ RLess(Zero, matrix[p][j])
                        /\ RLess(Zero, matrix[q][j]))
                    => \E a \in probabilities_to_assignments(matrix) :
                           SharedItem(a, j - 1)

\* a completed session of two participants with the same ranking of two
\* items, rows [1/2, 1/2], whose final assignment gives both the same item
C22_Witness ==
    \E g \in DOMAIN sessions :
        /\ sessions[g].status = "completed"
        /\ Len(sessions[g].items) = 2
        /\ Len(sessions[g].preferences) = 2
        /\ sessions[g].preferences[1].ranking = sessions[g].preferences[2].ranking
        /\ \A p \in 1..2 : \A j \in 1..2 :
              sessions[g].probabilities[1][p][j] = Rat(1, 2)
        /\ sessions[g].final_assignments[1][1] = sessions[g].final_assignments[1][2]

\* C23: under sequential calls the probability matrix of a session is
\* present exactly when its status is algorithm_run or completed, its final
\* assignment is present exactly when its status is completed, and a matrix
\* that is present has one row per participant in preferences and one
\* column per item
C23_OptionalFieldsFollowStatus ==
    \A g \in DOMAIN sessions :
        /\ sessions[g].probabilities # None
              <=> sessions[g].status \in {"algorithm_run", "completed"}
        /\ sessions[g].final_assignments # None
              <=> sessions[g].status = "completed"
        /\ sessions[g].probabilities # None =>
              /\ Len(sessions[g].probabilities[1]) = Len(sessions[g].preferences)
              /\ \A p \in DOMAIN sessions[g].probabilities[1] :
                    Len(sessions[g].probabilities[1][p]) = Len(sessions[g].items)

\* a completed session with more participants than items: both optional
\* fields are present and the matrix is not square
C23_Witness ==
    \E g \in DOMAIN sessions :
        /\ sessions[g].status = "completed"
        /\ sessions[g].probabilities # None
        /\ sessions[g].final_assignments # None
        /\ Len(sessions[g].preferences) = 3
        /\ Len(sessions[g].items) = 2
        /\ Len(sessions[g].probabilities[1]) = 3

(***************************************************************************)
(* Two groups.  The bot keeps the sessions of all the chats in one dict,   *)
(* keyed by group id; the calls below are those of Spec, made for either   *)
(* of two groups, each on two items and with two users.                    *)
(***************************************************************************)
GroupIds == {"g1", "g2"}

GroupItems == SubSeq(ItemLabels, 1, 2)

GroupUsers == {"u1", "u2"}

\* the rankings of the two items, and a text that is not a ranking of them
GroupTexts == {FormatRanking(f) : f \in Perms(Len(GroupItems))} \cup {<<"1">>}

GroupsNext ==
    \/ \E g \in GroupIds : start_session(g, GroupItems)
    \/ \E g \in GroupIds : cancel_session(g)
    \/ \E g \in GroupIds, u \in GroupUsers, t \in GroupTexts : submit_ranking(g, u, t)
    \/ \E g \in GroupIds : get_status(g)
    \/ \E g \in GroupIds : run_algorithm(g)
    \/ \E g \in GroupIds : make_final_assignments(g)

GroupsSpec == Init /\ [][GroupsNext]_vars

\* the kinds of failure a call reports
Failures ==
    {"AlreadyActive", "NoActiveSession", "WrongState", "InvalidFormat",
     "InsufficientRankings"}

\* the step leaves group h as it was: no session before and after, or the
\* same session
Untouched(h) ==
    /\ h \in DOMAIN sessions <=> h \in DOMAIN sessions'
    /\ h \in DOMAIN sessions => sessions'[h] = sessions[h]

C24_Step ==
    /\ ret'.op = "get_status" => sessions' = sessions
    /\ ret'.kind \in Failures => sessions' = sessions
    /\ \A h \in GroupIds : h # ret'.group_id => Untouched(h)

\* C24: get_status never changes a session, a call that returns a failure
\* leaves the whole dict of sessions unchanged, and a call on one group
\* leaves the sessions of all other groups unchanged
C24_FrameOfCalls == [][C24_Step]_vars

\* run_algorithm has just been refused on g1, whose session has been solved
\* already, while g2 has a completed session
C24_Witness ==
    /\ Returned("run_algorithm", "g1", "WrongState")
    /\ "g1" \in DOMAIN sessions
    /\ sessions["g1"].status = "algorithm_run"
    /\ "g2" \in DOMAIN sessions
    /\ sessions["g2"].status = "completed"

(***************************************************************************)
(* The guard of the normalisation (lines 216-220).  row_sums is computed   *)
(* from the clamped array, and a row sum of exactly 0 is replaced by 1.    *)
(***************************************************************************)
\* the call has left its loop
LoopEnded == InSolver /\ frames[Main].pc \in {"normalize", "done"}

\* row_sums[p], before the guard
RowSum(p) ==
    RSum([j \in DOMAIN frames[Main].st.prob[p] |-> Clamp0(frames[Main].st.prob[p][j])])

\* C25: on full rankings of at least two items by at least one participant
\* the guard against a row sum of zero never triggers: when the eating loop
\* has ended every participant has eaten a strictly positive total, and the
\* matrix returned is each row divided by its own sum
C25_GuardNeverTriggers ==
    LoopEnded =>
        /\ \A p \in DOMAIN frames[Main].preferences : RLess(Zero, RowSum(p))
        /\ frames[Main].pc = "done" =>
              \A p \in DOMAIN frames[Main].preferences :
                  \A j \in DOMAIN frames[Main].items :
                      Returned_matrix[p][j]
                          = RDiv(Clamp0(frames[Main].st.prob[p][j]), RowSum(p))

\* the loop has ended by its break, three participants having eaten 2/3
\* each of two items: the rows are divided by 2/3
C25_Witness ==
    /\ LoopEnded
    /\ frames[Main].pc = "done"
    /\ Len(frames[Main].preferences) = 3
    /\ Len(frames[Main].items) = 2
    /\ \A p \in DOMAIN frames[Main].preferences : RowSum(p) = Rat(2, 3)

====
